---- MODULE Spec2Model ----
(***************************************************************************)
(* Model of homeassistant/components/esphome/bluetooth/__init__.py:        *)
(* async_connect_scanner (one session), the can_connect callback bound     *)
(* into the connector, and the unload callable the start returns.          *)
(* Everything runs on one event loop: a step of the model is the code      *)
(* between two awaits, or one callback run to completion.                  *)
(***************************************************************************)
EXTENDS Naturals, Sequences, FiniteSets

\* ------------------------------------------------------------- bounds
MaxFree == 2        \* slot-count notifications carry a value in 0..MaxFree
MaxStops == 2       \* number of times the unload callable is invoked
MaxAdv == 1         \* advertisements delivered to the scanner
MaxClients == 3     \* clients constructed through the connector

\* ---------------------------------------------------------- vocabulary
\* The BluetoothProxyFeature bits the code tests; no other bit of
\* feature_flags is read.
ACTIVE_CONNECTIONS == "ACTIVE_CONNECTIONS"
RAW_ADVERTISEMENTS == "RAW_ADVERTISEMENTS"
Features == {ACTIVE_CONNECTIONS, RAW_ADVERTISEMENTS}

\* The three subscription requests of the client.
ConnectionsFree == "subscribe_bluetooth_connections_free"
RawAdvertisements == "subscribe_bluetooth_le_raw_advertisements"
Advertisements == "subscribe_bluetooth_le_advertisements"
Subscriptions == {ConnectionsFree, RawAdvertisements, Advertisements}

\* What the host hands back on registration and on scanner setup.
ScannerRegistration == "async_register_scanner"
ScannerSetup == "scanner.async_setup"
Resources == Subscriptions \cup {ScannerRegistration, ScannerSetup}

VARIABLES
    feature_flags,          \* set of feature bits of the device
    available,              \* entry_data.available
    ble_connections_free,   \* bluetooth_device.ble_connections_free
    pc,                     \* position of async_connect_scanner
    tasks,                  \* state of each subscription coroutine
    calls,                  \* calls made by async_connect_scanner, in order
    register_args,          \* the connectable argument of each registration
    unload_callbacks,       \* the list bound into the returned callable
    active,                 \* resources acquired and not released
    invoked,                \* times each release action has been invoked
    stop_log,               \* one record per invocation of the unload callable
    can_connect_log,        \* the last can_connect call: what it read and returned
    delivered,              \* advertisements forwarded to the scanner
    slot_updates,           \* the slot-count notification delivered last, if any
    clients                 \* clients constructed through connector.client

vars == <<feature_flags, available, ble_connections_free, pc, tasks, calls,
          register_args, unload_callbacks, active, invoked,
          stop_log, can_connect_log, delivered,
                   slot_updates, clients>>

\* ------------------------------------------------------------- helpers
RECURSIVE CountIn(_, _)
CountIn(s, x) ==
    IF s = <<>> THEN 0
    ELSE (IF Head(s) = x THEN 1 ELSE 0) + CountIn(Tail(s), x)

Range(s) == {s[i] : i \in 1..Len(s)}

\* line 70: connectable = bool(feature_flags & ACTIVE_CONNECTIONS)
\* Variant: the flag tested is the wrong bit.
connectable_wrong_bit == RAW_ADVERTISEMENTS \in feature_flags
connectable == ACTIVE_CONNECTIONS \in feature_flags

\* lines 28-45: bool(entry_data.available and ble_connections_free);
\* an integer is true when it is not zero.
\* Variant: "or" in place of "and".
_async_can_connect_or(avail, free) == avail \/ free # 0
\* Variant: the free-slot count is not consulted.
_async_can_connect_available_only(avail, free) == avail
_async_can_connect(avail, free) == avail /\ free # 0

\* lines 101-124: the coroutines appended to coros, in order.
\* Variant: both advertisement feeds are subscribed.
coros_both_feeds(conn, flags) ==
    (IF conn THEN <<ConnectionsFree>> ELSE <<>>)
    \o <<RawAdvertisements, Advertisements>>
\* Variant: the slot-count subscription is made whatever the flags.
coros_slots_always(conn, flags) ==
    <<ConnectionsFree>>
    \o (IF RAW_ADVERTISEMENTS \in flags
        THEN <<RawAdvertisements>> ELSE <<Advertisements>>)
coros(conn, flags) ==
    (IF conn THEN <<ConnectionsFree>> ELSE <<>>)
    \o (IF RAW_ADVERTISEMENTS \in flags
        THEN <<RawAdvertisements>> ELSE <<Advertisements>>)

\* line 126: await asyncio.gather(*coros) returns once every task has
\* resolved, and raises as soon as one task has failed.
\* Variant: gather(..., return_exceptions=True).
gather_returns_exceptions(t, cs) ==
    \A s \in Range(cs) : t[s] \in {"resolved", "failed"}
\* Variant: the first coroutine is not awaited.
gather_skips_first(t, cs) ==
    \A i \in 2..Len(cs) : t[cs[i]] = "resolved"
\* Variant: only the first coroutine is awaited.
gather_awaits_first_only(t, cs) == t[cs[1]] = "resolved"
gather_returns(t, cs) == \A s \in Range(cs) : t[s] = "resolved"
gather_raises(t, cs) == \E s \in Range(cs) : t[s] = "failed"

\* lines 127-133: the list bound into the returned callable. The handles
\* the subscriptions resolved to are the result of line 126, which is
\* not bound to anything.
\* Variant: the handles of the gather are kept in the list.
unload_list_keeps_handles(cs) == cs \o <<ScannerRegistration, ScannerSetup>>
\* Variant: the two callbacks are listed in the other order.
unload_list_reversed(cs) == <<ScannerSetup, ScannerRegistration>>
unload_list(cs) == <<ScannerRegistration, ScannerSetup>>

\* lines 48-52: for callback in unload_callbacks: callback().
\* raises[i] says whether the i-th callback raises when called; the loop
\* has no handler, so the first raise ends it. The result is the list of
\* callbacks called and whether the call of _async_unload raised.
RECURSIVE unload_loop(_, _, _, _)
unload_loop(cbs, raises, i, called) ==
    IF i > Len(cbs) THEN [called |-> called, raised |-> FALSE]
    ELSE IF raises[i]
         THEN [called |-> Append(called, cbs[i]), raised |-> TRUE]
    ELSE unload_loop(cbs, raises, i + 1, Append(called, cbs[i]))

\* Variant: the loop goes on after a callback raised.
RECURSIVE unload_loop_continue(_, _, _, _, _)
unload_loop_continue(cbs, raises, i, called, r) ==
    IF i > Len(cbs) THEN [called |-> called, raised |-> r]
    ELSE unload_loop_continue(cbs, raises, i + 1, Append(called, cbs[i]),
                              r \/ raises[i])

_async_unload_continue(cbs, raises) ==
    unload_loop_continue(cbs, raises, 1, <<>>, FALSE)
_async_unload(cbs, raises) == unload_loop(cbs, raises, 1, <<>>)

\* ESPHomeBluetoothDevice.ble_connections_free of a device just created
\* (line 71): no free slot is known before the first notification.
initial_ble_connections_free == 0

\* ---------------------------------------------------------------- Init
Init ==
    /\ feature_flags \in SUBSET Features
    /\ available \in BOOLEAN
    /\ ble_connections_free = initial_ble_connections_free
    /\ pc = "created"
    /\ tasks = [s \in Subscriptions |-> "unissued"]
    /\ calls = <<>>
    /\ register_args = <<>>
    /\ unload_callbacks = <<>>
    /\ active = {}
    /\ invoked = [r \in Resources |-> 0]
    /\ stop_log = <<>>
    /\ can_connect_log = <<>>
    /\ delivered = 0
    /\ slot_updates = <<>>
    /\ clients = 0

\* lines 63-126, up to the await: the device is created with no free slot,
\* the coroutines are built and asyncio.gather schedules them all.
\* Variant: the scanner is registered before the subscriptions are awaited.
StartRegistering ==
    /\ pc = "created"
    /\ pc' = "gather"
    /\ ble_connections_free' = initial_ble_connections_free
    /\ tasks' = [s \in Subscriptions |->
                    IF s \in Range(coros(connectable, feature_flags)) THEN "pending"
                    ELSE tasks[s]]
    /\ calls' = calls \o coros(connectable, feature_flags)
                      \o <<ScannerRegistration>>
    /\ register_args' = Append(register_args, connectable)
    /\ active' = active \cup {ScannerRegistration}
    /\ UNCHANGED <<feature_flags, available, unload_callbacks, invoked,
                   stop_log, can_connect_log, delivered, slot_updates,
                   clients>>

Start ==
    /\ pc = "created"
    /\ pc' = "gather"
    /\ ble_connections_free' = initial_ble_connections_free
    /\ tasks' = [s \in Subscriptions |->
                    IF s \in Range(coros(connectable, feature_flags)) THEN "pending"
                    ELSE tasks[s]]
    /\ calls' = calls \o coros(connectable, feature_flags)
    /\ UNCHANGED <<feature_flags, available, register_args,
                   unload_callbacks, active, invoked, stop_log,
                   can_connect_log, delivered,
                   slot_updates, clients>>

\* One subscription coroutine run by the gather: the client acknowledges
\* the subscription, which is live from then on, or the request fails.
\* Siblings of a failed task are not cancelled and still run.
TaskResolve(s) ==
    /\ tasks[s] = "pending"
    /\ tasks' = [tasks EXCEPT ![s] = "resolved"]
    /\ active' = active \cup {s}
    /\ UNCHANGED <<feature_flags, available, ble_connections_free, pc, calls,
                   register_args, unload_callbacks, invoked,
                   stop_log, can_connect_log, delivered,
                   slot_updates, clients>>

TaskFail(s) ==
    /\ tasks[s] = "pending"
    /\ tasks' = [tasks EXCEPT ![s] = "failed"]
    /\ UNCHANGED <<feature_flags, available, ble_connections_free, pc, calls,
                   register_args, unload_callbacks, active, invoked,
                   stop_log, can_connect_log, delivered,
                   slot_updates, clients>>

\* line 126 raising: the exception leaves async_connect_scanner, which has
\* no handler; nothing is released and nothing is returned.
\* Variant: the live subscriptions are released on failure.
GatherRaiseReleasing ==
    /\ pc = "gather"
    /\ gather_raises(tasks, coros(connectable, feature_flags))
    /\ pc' = "failed"
    /\ active' = active \ Subscriptions
    /\ invoked' = [r \in Resources |->
                      IF r \in active \cap Subscriptions
                      THEN invoked[r] + 1 ELSE invoked[r]]
    /\ UNCHANGED <<feature_flags, available, ble_connections_free, tasks,
                   calls, register_args, unload_callbacks,
                   stop_log, can_connect_log, delivered,
                   slot_updates, clients>>

GatherRaise ==
    /\ pc = "gather"
    /\ gather_raises(tasks, coros(connectable, feature_flags))
    /\ pc' = "failed"
    /\ UNCHANGED <<feature_flags, available, ble_connections_free, tasks,
                   calls, register_args, unload_callbacks, active,
                   invoked, stop_log, can_connect_log, delivered,
                   slot_updates, clients>>

\* lines 126-133 after the gather has returned: register the scanner, set
\* it up, return the unload callable.
GatherReturn ==
    /\ pc = "gather"
    /\ gather_returns(tasks, coros(connectable, feature_flags))
    /\ pc' = "done"
    /\ calls' = calls \o <<ScannerRegistration, ScannerSetup>>
    /\ register_args' = Append(register_args, connectable)
    /\ active' = active \cup {ScannerRegistration, ScannerSetup}
    /\ unload_callbacks' = unload_list(coros(connectable, feature_flags))
    /\ UNCHANGED <<feature_flags, available, ble_connections_free, tasks,
                   invoked, stop_log, can_connect_log, delivered,
                   slot_updates, clients>>

\* The returned callable, partial(_async_unload, [...]), called by the owner
\* of the session. A callback that returns has released its resource; one
\* that raises has not.
\* What one call of the callable did: the callbacks it called and, for each
\* of them, whether it raised.
Outcome(run, raises) ==
    [run |-> run, raises |-> [j \in 1..Len(run.called) |-> raises[j]]]

Released(run, raises) ==
    {run.called[i] : i \in {j \in 1..Len(run.called) : ~raises[j]}}

\* Variant: a consumed flag makes a later call a silent no-op.
StopOnce ==
    /\ pc = "done"
    /\ Len(stop_log) < MaxStops
    /\ \E raises \in [1..Len(unload_callbacks) -> BOOLEAN] :
          LET run == IF stop_log = <<>>
                     THEN _async_unload(unload_callbacks, raises)
                     ELSE [called |-> <<>>, raised |-> FALSE] IN
          /\ invoked' = [r \in Resources |->
                            invoked[r] + CountIn(run.called, r)]
          /\ active' = active \ Released(run, raises)
          /\ stop_log' = Append(stop_log, Outcome(run, raises))
    /\ UNCHANGED <<feature_flags, available, ble_connections_free, pc, tasks,
                   calls, register_args, unload_callbacks,
                   can_connect_log, delivered,
                   slot_updates, clients>>

\* Variant: a consumed flag makes a later call raise.
StopAsserting ==
    /\ pc = "done"
    /\ Len(stop_log) < MaxStops
    /\ \E raises \in [1..Len(unload_callbacks) -> BOOLEAN] :
          LET run == IF stop_log = <<>>
                     THEN _async_unload(unload_callbacks, raises)
                     ELSE [called |-> <<>>, raised |-> TRUE] IN
          /\ invoked' = [r \in Resources |->
                            invoked[r] + CountIn(run.called, r)]
          /\ active' = active \ Released(run, raises)
          /\ stop_log' = Append(stop_log, Outcome(run, raises))
    /\ UNCHANGED <<feature_flags, available, ble_connections_free, pc, tasks,
                   calls, register_args, unload_callbacks,
                   can_connect_log, delivered,
                   slot_updates, clients>>

\* Variant: the callable exists, with the list built so far, before the
\* start has returned.
StopAnytime ==
    /\ pc # "created"
    /\ Len(stop_log) < MaxStops
    /\ \E raises \in [1..Len(unload_callbacks) -> BOOLEAN] :
          LET run == _async_unload(unload_callbacks, raises) IN
          /\ invoked' = [r \in Resources |->
                            invoked[r] + CountIn(run.called, r)]
          /\ active' = active \ Released(run, raises)
          /\ stop_log' = Append(stop_log, Outcome(run, raises))
    /\ UNCHANGED <<feature_flags, available, ble_connections_free, pc, tasks,
                   calls, register_args, unload_callbacks,
                   can_connect_log, delivered, slot_updates, clients>>

Stop ==
    /\ pc = "done"
    /\ Len(stop_log) < MaxStops
    /\ \E raises \in [1..Len(unload_callbacks) -> BOOLEAN] :
          LET run == _async_unload(unload_callbacks, raises) IN
          /\ invoked' = [r \in Resources |->
                            invoked[r] + CountIn(run.called, r)]
          /\ active' = active \ Released(run, raises)
          /\ stop_log' = Append(stop_log, Outcome(run, raises))
    /\ UNCHANGED <<feature_flags, available, ble_connections_free, pc, tasks,
                   calls, register_args, unload_callbacks,
                   can_connect_log, delivered,
                   slot_updates, clients>>

\* connector.can_connect(), lines 95-97: the partial of _async_can_connect
\* over entry_data and bluetooth_device. It reads, logs and returns.
\* Variant: a call that answers true takes a slot off the count.
CanConnectConsuming ==
    /\ pc # "created"
    /\ can_connect_log' =
          <<[available |-> available,
             free |-> ble_connections_free,
             result |-> _async_can_connect(available, ble_connections_free),
             raised |-> FALSE,
             stops |-> Len(stop_log)]>>
    /\ ble_connections_free' =
          IF _async_can_connect(available, ble_connections_free)
          THEN ble_connections_free - 1 ELSE ble_connections_free
    /\ UNCHANGED <<feature_flags, available, pc, tasks,
                   calls, register_args, unload_callbacks, active,
                   invoked, stop_log, delivered, slot_updates, clients>>

CanConnect ==
    /\ pc # "created"
    /\ can_connect_log' =
          <<[available |-> available,
             free |-> ble_connections_free,
             result |-> _async_can_connect(available, ble_connections_free),
             raised |-> FALSE,
             stops |-> Len(stop_log)]>>
    /\ UNCHANGED <<feature_flags, available, ble_connections_free, pc, tasks,
                   calls, register_args, unload_callbacks, active,
                   invoked, stop_log, delivered,
                   slot_updates, clients>>

\* bluetooth_device.async_update_ble_connection_limits, the callback given
\* to the slot-count subscription (lines 110-112): stores the pushed count.
\* Variant: the pushed count is added to the stored one.
async_update_ble_connection_limits_sum(free) ==
    /\ ConnectionsFree \in active
    /\ ble_connections_free' = ble_connections_free + free
    /\ slot_updates' = <<free>>
    /\ UNCHANGED <<feature_flags, available, pc, tasks, calls,
                   register_args, unload_callbacks, active, invoked,
                   stop_log, can_connect_log, delivered, clients>>

async_update_ble_connection_limits(free) ==
    /\ ConnectionsFree \in active
    /\ ble_connections_free' = free
    /\ slot_updates' = <<free>>
    /\ UNCHANGED <<feature_flags, available, pc, tasks, calls,
                   register_args, unload_callbacks, active, invoked,
                   stop_log, can_connect_log, delivered, clients>>

\* scanner.async_on_raw_advertisements / scanner.async_on_advertisement,
\* the callback given to the advertisement subscription (lines 115-124).
async_on_advertisement ==
    /\ (RawAdvertisements \in active \/ Advertisements \in active)
    /\ delivered < MaxAdv
    /\ delivered' = delivered + 1
    /\ UNCHANGED <<feature_flags, available, ble_connections_free, pc, tasks,
                   calls, register_args, unload_callbacks, active,
                   invoked, stop_log, can_connect_log, slot_updates, clients>>

\* connector.client(...), lines 90-93: partial(ESPHomeClient, client_data).
\* The host admits a connection through a registered scanner: it asks
\* connector.can_connect() and, on a true answer, constructs the client.
\* The construction binds the session data and touches nothing else.
CreateClient ==
    /\ pc = "done"
    /\ ScannerRegistration \in active
    /\ clients < MaxClients
    /\ _async_can_connect(available, ble_connections_free)
    /\ can_connect_log' =
          <<[available |-> available,
             free |-> ble_connections_free,
             result |-> _async_can_connect(available, ble_connections_free),
             raised |-> FALSE,
             stops |-> Len(stop_log)]>>
    /\ clients' = clients + 1
    /\ UNCHANGED <<feature_flags, available, ble_connections_free, pc, tasks,
                   calls, register_args, unload_callbacks, active, invoked,
                   stop_log, delivered, slot_updates>>

\* entry_data.available follows the link to the device.
SetAvailable ==
    /\ available' = ~available
    /\ UNCHANGED <<feature_flags, ble_connections_free, pc, tasks, calls,
                   register_args, unload_callbacks, active, invoked,
                   stop_log, can_connect_log, delivered,
                   slot_updates, clients>>

Next ==
    \/ Start
    \/ \E s \in Subscriptions : TaskResolve(s)
    \/ \E s \in Subscriptions : TaskFail(s)
    \/ GatherRaise
    \/ GatherReturn
    \/ Stop
    \/ CanConnect
    \/ \E free \in 0..MaxFree : async_update_ble_connection_limits(free)
    \/ async_on_advertisement
    \/ CreateClient
    \/ SetAvailable

Spec == Init /\ [][Next]_vars

\* ------------------------------------------------------------ readings
Registrations == CountIn(calls, ScannerRegistration)
AdvKind == IF RAW_ADVERTISEMENTS \in feature_flags
           THEN RawAdvertisements ELSE Advertisements
OtherAdvKind == IF RAW_ADVERTISEMENTS \in feature_flags
                THEN Advertisements ELSE RawAdvertisements
IsPrefix(p, q) == Len(p) <= Len(q) /\ p = SubSeq(q, 1, Len(p))
Stops == 1..Len(stop_log)

\* C1: in a connectable session the slot-count subscription request has
\* been issued, before the registration call, and has resolved whenever
\* the scanner has been registered with the host.
C1_SlotsResolvedBeforeRegistration ==
    (ACTIVE_CONNECTIONS \in feature_flags /\ Registrations > 0) =>
        /\ tasks[ConnectionsFree] = "resolved"
        /\ \A i, j \in 1..Len(calls) :
              (calls[i] = ConnectionsFree /\ calls[j] = ScannerRegistration)
                  => i < j
        /\ \E i \in 1..Len(calls) : calls[i] = ConnectionsFree

C1_Witness ==
    /\ ACTIVE_CONNECTIONS \in feature_flags
    /\ pc = "done"
    /\ register_args = <<TRUE>>
    /\ tasks[ConnectionsFree] = "resolved"

\* C2: can_connect returns true exactly when the proxy is available and
\* the free-slot count is greater than 0; it is false whenever the proxy
\* is unavailable.
C2_CanConnectIffAvailableAndFree ==
    \A i \in 1..Len(can_connect_log) :
        LET c == can_connect_log[i] IN
        /\ c.result = (c.available /\ c.free > 0)
        /\ (~c.available => c.result = FALSE)

C2_Witness ==
    /\ can_connect_log # <<>>
    /\ ~can_connect_log[1].available
    /\ can_connect_log[1].free > 0
    /\ can_connect_log[1].result = FALSE

\* C3 as stated: whatever the number of stop() calls, no release action has
\* run twice, and after stop() calls none of which raised no release
\* action has been skipped.
C3_Original ==
    \A r \in Range(unload_callbacks) :
        /\ invoked[r] <= 1
        /\ (stop_log # <<>> /\ \A i \in Stops : ~stop_log[i].run.raised)
              => invoked[r] >= 1

\* C3 amended: every stop() call runs the release actions of the list in
\* order, each once, up to the first that raises, and all of them when none
\* raises; nothing is remembered between calls, so a release action has
\* run once per stop() call that reached it.
C3_EachStopRunsTheListAgain ==
    /\ \A i \in Stops :
          LET run == stop_log[i].run IN
          /\ run.called # <<>>
          /\ IsPrefix(run.called, unload_callbacks)
          /\ (~run.raised => run.called = unload_callbacks)
    /\ \A r \in Resources :
          invoked[r] =
              Cardinality({i \in Stops : r \in Range(stop_log[i].run.called)})
    /\ stop_log # <<>> => invoked[ScannerRegistration] = Len(stop_log)

C3_Witness ==
    /\ Len(stop_log) = 2
    /\ \A i \in Stops : ~stop_log[i].run.raised
    /\ invoked[ScannerRegistration] = 2
    /\ invoked[ScannerSetup] = 2

\* C4 as stated: after a successful start and a stop() that returned,
\* nothing the session created is still held: no subscription is active,
\* the scanner is not registered and its setup is cancelled.
C4_Original ==
    (stop_log # <<>> /\ ~stop_log[1].run.raised) => active = {}

\* C4 amended: after a successful start and a stop() that returned, the
\* registration and the scanner setup have been released, and the
\* subscriptions established during start (slot-count if connectable,
\* advertisement) are still active: no stop() ever invokes their
\* unsubscribe handles.
C4_StopReleasesOnlyTheScanner ==
    /\ \A s \in Subscriptions : invoked[s] = 0
    /\ (stop_log # <<>> /\ ~stop_log[1].run.raised) =>
          /\ ScannerRegistration \notin active
          /\ ScannerSetup \notin active
          /\ active = {AdvKind}
                \cup (IF ACTIVE_CONNECTIONS \in feature_flags
                      THEN {ConnectionsFree} ELSE {})

C4_Witness ==
    /\ stop_log # <<>>
    /\ ~stop_log[1].run.raised
    /\ ACTIVE_CONNECTIONS \in feature_flags
    /\ active = {ConnectionsFree, AdvKind}

\* C5 as stated: when the start of a connectable session returns its
\* failure with the advertisement subscription failed and the slot-count
\* subscription already established, the slot-count release action has
\* been invoked exactly once.
C5_Original ==
    [][(/\ pc = "gather"
        /\ pc' = "failed"
        /\ ACTIVE_CONNECTIONS \in feature_flags
        /\ tasks[AdvKind] = "failed"
        /\ tasks[ConnectionsFree] = "resolved")
       => invoked'[ConnectionsFree] = 1]_vars

\* C5 amended: when the advertisement subscription of a connectable session
\* has failed and the start has returned its failure, no release action
\* has been invoked: an established slot-count subscription is still
\* active and its release action has been invoked zero times.
C5_FailedStartReleasesNothing ==
    (/\ pc = "failed"
     /\ ACTIVE_CONNECTIONS \in feature_flags
     /\ tasks[AdvKind] = "failed") =>
        /\ \A r \in Resources : invoked[r] = 0
        /\ (tasks[ConnectionsFree] = "resolved" => ConnectionsFree \in active)

C5_Witness ==
    /\ pc = "failed"
    /\ ACTIVE_CONNECTIONS \in feature_flags
    /\ tasks[AdvKind] = "failed"
    /\ tasks[ConnectionsFree] = "resolved"
    /\ ConnectionsFree \in active

\* C6: once a subscription setup call has failed, the start does not
\* succeed and the scanner is never registered with the host.
C6_NoRegistrationAfterFailure ==
    (\E s \in Subscriptions : tasks[s] = "failed") =>
        /\ Registrations = 0
        /\ register_args = <<>>
        /\ ScannerRegistration \notin active
        /\ pc \in {"gather", "failed"}
        /\ unload_callbacks = <<>>

C6_Witness ==
    /\ pc = "failed"
    /\ \E s \in Subscriptions : tasks[s] = "failed"
    /\ \E s \in Subscriptions : tasks[s] = "resolved"

\* C7: a session issues exactly one advertisement subscription, at start:
\* the raw kind if RAW_ADVERTISEMENTS is set and the decoded kind if not;
\* the other kind is never issued, whatever happens afterwards.
C7_OneAdvertisementSubscription ==
    /\ pc = "created" =>
          \A s \in Subscriptions : CountIn(calls, s) = 0 /\ tasks[s] = "unissued"
    /\ pc # "created" =>
          /\ CountIn(calls, RawAdvertisements)
                = (IF RAW_ADVERTISEMENTS \in feature_flags THEN 1 ELSE 0)
          /\ CountIn(calls, Advertisements)
                = (IF RAW_ADVERTISEMENTS \in feature_flags THEN 0 ELSE 1)
          /\ tasks[AdvKind] # "unissued"
          /\ tasks[OtherAdvKind] = "unissued"
          /\ OtherAdvKind \notin active

C7_Witness ==
    /\ RAW_ADVERTISEMENTS \notin feature_flags
    /\ stop_log # <<>>
    /\ delivered > 0
    /\ can_connect_log # <<>>
    /\ ble_connections_free > 0
    /\ Advertisements \in active

\* C8: the slot-count subscription is issued if and only if
\* ACTIVE_CONNECTIONS is set, and the connectable argument of the
\* registration equals that flag; a start that returns has registered.
C8_SlotSubscriptionIffConnectable ==
    /\ pc # "created" =>
          /\ CountIn(calls, ConnectionsFree)
                = (IF ACTIVE_CONNECTIONS \in feature_flags THEN 1 ELSE 0)
          /\ (tasks[ConnectionsFree] # "unissued")
                = (ACTIVE_CONNECTIONS \in feature_flags)
    /\ \A i \in 1..Len(register_args) :
          register_args[i] = (ACTIVE_CONNECTIONS \in feature_flags)
    /\ pc = "done" => Len(register_args) = 1

C8_Witness ==
    /\ ACTIVE_CONNECTIONS \notin feature_flags
    /\ RAW_ADVERTISEMENTS \notin feature_flags
    /\ pc = "done"
    /\ register_args = <<FALSE>>
    /\ tasks[ConnectionsFree] = "unissued"
    /\ tasks[Advertisements] = "resolved"
    /\ calls = <<Advertisements, ScannerRegistration, ScannerSetup>>

\* C9 as stated: a second stop() raises, and a can_connect call made after
\* a stop() raises.
C9_Original ==
    /\ Len(stop_log) >= 2 => stop_log[2].run.raised
    /\ \A i \in 1..Len(can_connect_log) :
          can_connect_log[i].stops > 0 => can_connect_log[i].raised

\* C9 amended: a stop() call, the second included, raises only when a
\* release action it called raises, and otherwise calls them all and
\* returns; a can_connect call made after a stop() returns its usual
\* answer without raising.
C9_NothingRejectsUseAfterStop ==
    /\ \A i \in Stops :
          LET run == stop_log[i].run
              raises == stop_log[i].raises IN
          /\ run.raised = (\E j \in 1..Len(run.called) : raises[j])
          /\ (\A j \in DOMAIN raises : ~raises[j])
                => run.called = unload_callbacks
    /\ \A i \in 1..Len(can_connect_log) :
          LET c == can_connect_log[i] IN
          c.stops > 0 => (~c.raised /\ c.result = (c.available /\ c.free > 0))

C9_Witness ==
    /\ Len(stop_log) = 2
    /\ ~stop_log[2].run.raised
    /\ stop_log[2].run.called = unload_callbacks
    /\ can_connect_log # <<>>
    /\ can_connect_log[1].stops = 2
    /\ can_connect_log[1].result = TRUE

\* C10 as stated: when a release action raises during a stop() call, the
\* release actions after it are still invoked in that call.
C10_Original ==
    \A i \in Stops :
        stop_log[i].run.raised => stop_log[i].run.called = unload_callbacks

\* C10 amended: when a release action raises during a stop() call, that
\* call ends there: the raising action is the last one called, the release
\* actions after it in the list are not invoked by that call, and what
\* they would release stays held.
C10_RaiseEndsTeardown ==
    /\ \A i \in Stops :
          LET run == stop_log[i].run
              raises == stop_log[i].raises IN
          run.raised =>
              /\ raises[Len(run.called)]
              /\ \A j \in 1..(Len(run.called) - 1) : ~raises[j]
              /\ IsPrefix(run.called, unload_callbacks)
    /\ (Len(stop_log) = 1 /\ stop_log[1].raises[1]) =>
          /\ invoked[ScannerSetup] = 0
          /\ ScannerSetup \in active

C10_Witness ==
    /\ Len(stop_log) = 1
    /\ stop_log[1].run.raised
    /\ stop_log[1].run.called = <<ScannerRegistration>>
    /\ invoked[ScannerSetup] = 0
    /\ ScannerSetup \in active

\* C11: the free-slot count is 0 before the first slot-count notification;
\* can_connect is false whenever the count is 0, available or not; so from
\* the start of a session until the first notification can_connect is
\* false.
C11_NoSlotBeforeFirstNotification ==
    /\ slot_updates = <<>> =>
          /\ ble_connections_free = 0
          /\ ~_async_can_connect(available, ble_connections_free)
    /\ ble_connections_free = 0 => ~_async_can_connect(TRUE, ble_connections_free)
    /\ \A i \in 1..Len(can_connect_log) :
          can_connect_log[i].free = 0 => ~can_connect_log[i].result

C11_Witness ==
    /\ ACTIVE_CONNECTIONS \in feature_flags
    /\ pc = "done"
    /\ ConnectionsFree \in active
    /\ slot_updates = <<>>
    /\ available
    /\ can_connect_log # <<>>
    /\ can_connect_log[1].available
    /\ can_connect_log[1].free = 0
    /\ ~can_connect_log[1].result

\* C12: after any sequence of slot-count notifications the free-slot
\* count, and the count can_connect goes by, is the value of the last
\* notification of the sequence.
C12_LastNotificationWins ==
    slot_updates # <<>> =>
        /\ ble_connections_free = slot_updates[Len(slot_updates)]
        /\ _async_can_connect(available, ble_connections_free)
              = (available /\ slot_updates[Len(slot_updates)] > 0)

C12_Witness ==
    /\ can_connect_log # <<>>
    /\ can_connect_log[1].free = 1
    /\ slot_updates = <<2>>
    /\ ble_connections_free = 2

\* C13: a can_connect call and the construction of a client for an
\* admitted connection leave the free-slot count and the availability
\* flag as they were.
C13_AdmissionLeavesTheCountAlone ==
    [][(can_connect_log' # can_connect_log \/ clients' # clients)
       => /\ ble_connections_free' = ble_connections_free
          /\ available' = available
          /\ slot_updates' = slot_updates]_vars

C13_Witness ==
    /\ slot_updates = <<2>>
    /\ clients = 3
    /\ available
    /\ ble_connections_free = 2
    /\ _async_can_connect(available, ble_connections_free)
    /\ can_connect_log # <<>>
    /\ can_connect_log[1].free = 2
    /\ can_connect_log[1].result

\* C14 as stated: stop() can be invoked while the setup requests of the
\* start are still in flight.
C14_Original ==
    (pc = "gather" /\ Len(stop_log) < MaxStops) => ENABLED Stop

\* C14 amended: stop() can be invoked only once the start has returned
\* successfully; while the setup requests are in flight, and after a failed
\* start, there is no stop callable: no release action has been invoked
\* and every subscription acknowledged so far is still active.
C14_StopOnlyAfterStart ==
    /\ (ENABLED Stop) => pc = "done"
    /\ pc # "done" =>
          /\ stop_log = <<>>
          /\ unload_callbacks = <<>>
          /\ \A r \in Resources : invoked[r] = 0
          /\ active = {s \in Subscriptions : tasks[s] = "resolved"}

C14_Witness ==
    /\ pc = "gather"
    /\ ConnectionsFree \in active
    /\ tasks[AdvKind] = "pending"
    /\ ~ENABLED Stop

\* C15: the registration call is made at most once per session, and
\* exactly once when the start has succeeded; nothing after the start
\* registers the scanner again.
C15_RegisteredAtMostOnce ==
    /\ Registrations <= 1
    /\ Len(register_args) = Registrations
    /\ (pc = "done") = (Registrations = 1)

C15_Witness ==
    /\ pc = "done"
    /\ Registrations = 1
    /\ slot_updates # <<>>
    /\ delivered > 0
    /\ clients > 0
    /\ can_connect_log # <<>>
    /\ stop_log # <<>>

\* C16: the start issues all its setup requests together, each may resolve
\* while the others are still pending, and the registration is made only
\* when every one of them, the advertisement subscription included, has
\* resolved.
C16_FanOutJoin ==
    /\ pc # "created" =>
          \A s \in Range(coros(ACTIVE_CONNECTIONS \in feature_flags,
                               feature_flags)) : tasks[s] # "unissued"
    /\ \A s \in Subscriptions : tasks[s] = "pending" => ENABLED TaskResolve(s)
    /\ Registrations > 0 =>
          /\ tasks[AdvKind] = "resolved"
          /\ \A s \in Subscriptions : tasks[s] \in {"resolved", "unissued"}

C16_Witness ==
    /\ ACTIVE_CONNECTIONS \in feature_flags
    /\ pc = "gather"
    /\ tasks[ConnectionsFree] = "pending"
    /\ tasks[AdvKind] = "pending"

\* C17: in a session without ACTIVE_CONNECTIONS no slot-count notification
\* is ever delivered, the free-slot count is 0 in every state and
\* can_connect is false in every state, available or not.
C17_ScanOnlyNeverAdmits ==
    ACTIVE_CONNECTIONS \notin feature_flags =>
        /\ slot_updates = <<>>
        /\ ble_connections_free = 0
        /\ ~_async_can_connect(available, ble_connections_free)
        /\ \A i \in 1..Len(can_connect_log) : ~can_connect_log[i].result

C17_Witness ==
    /\ ACTIVE_CONNECTIONS \notin feature_flags
    /\ pc = "done"
    /\ available
    /\ can_connect_log # <<>>
    /\ can_connect_log[1].available
    /\ ~can_connect_log[1].result

\* C18: on a successful start the scanner is registered before its setup
\* is run, the list of the unload callable holds exactly the unregister
\* and the setup-cancel callbacks in that order, and stop() calls them in
\* that order.
C18_RegisterThenSetup ==
    /\ pc = "done" =>
          /\ Len(calls) >= 2
          /\ SubSeq(calls, Len(calls) - 1, Len(calls))
                = <<ScannerRegistration, ScannerSetup>>
          /\ unload_callbacks = <<ScannerRegistration, ScannerSetup>>
    /\ \A i \in Stops :
          /\ stop_log[i].run.called # <<>>
          /\ IsPrefix(stop_log[i].run.called,
                      <<ScannerRegistration, ScannerSetup>>)

C18_Witness ==
    /\ pc = "done"
    /\ stop_log # <<>>
    /\ stop_log[1].run.called = <<ScannerRegistration, ScannerSetup>>
    /\ {ScannerRegistration, ScannerSetup} \cap active = {}
====
